---- MODULE Spec2Model ----
(***************************************************************************)
(* The state store of the expense tracker (js/data.js), the validation     *)
(* helper (utils) and the handlers of the application module that call     *)
(* them.  JavaScript values are modelled by what the operations do to      *)
(* them: numbers carry NaN, object spread is a key-wise merge, the arrays  *)
(* and objects reachable from defaultState are shared by reference with    *)
(* every document built by a shallow copy of it.                           *)
(***************************************************************************)
EXTENDS Integers, Sequences, FiniteSets, TLC

VARIABLES
    now,          \* the clock: the reading Date.now() / new Date() returns
    storage,      \* localStorage[DATA_KEY]
    defaultState, \* the module-level defaultState object (contents)
    appState,     \* the document the caller holds (contents)
    alias,        \* which fields of appState ARE defaultState's objects
    maxId,        \* history: the greatest id addExpense has assigned, or -1
    last,         \* history: the last call, its arguments and its result
    timeout       \* the timer the debounced search handler holds

vars == <<now, storage, defaultState, appState, alias, maxId, last, timeout>>

---------------------------------------------------------------------------
(* Bounds of the model.                                                    *)

MaxExpenses == 2      \* addExpense is not called on a longer list
MaxNow == 1           \* the last clock reading of a run
TicksPerMonth == 1    \* clock readings per calendar month
MaxListLen == 3       \* the longest expense list the pure functions are given
MantissaBits == 12    \* significant bits a number keeps (binary64 keeps 53)
Wait == 2             \* the wait given to debounce, in steps of time
MaxCalls == 4         \* the debounced function is not called more often

(* Program constants.                                                      *)

MONTHLY_INCOME_JMD == 160000
TrendMonths == 6      \* getSpendingTrend(state, months = 6)

---------------------------------------------------------------------------
(* JavaScript values.                                                      *)

Num(n) == [type |-> "number", value |-> n]
NaN == [type |-> "NaN"]
Null == [type |-> "null"]

IsFinite(v) == v.type = "number"

\* The numeric texts of the model and the number each one starts with.
NumericPrefix ==
    ("1200" :> 1200) @@ ("450" :> 450) @@ ("25000" :> 25000) @@
    ("0" :> 0) @@ ("-5" :> -5) @@ ("12abc" :> 12)

\* parseFloat(text): the number the text starts with, NaN when there is none.
ParseFloat(text) ==
    IF text \in DOMAIN NumericPrefix THEN Num(NumericPrefix[text]) ELSE NaN

\* Number(text) is NaN: what isNaN(text) answers ("" and blanks convert to 0).
IsNaNText(text) ==
    ~ (text \in (DOMAIN NumericPrefix \ {"12abc"}) \/ text \in {"", " "})

\* a <= 0 on JavaScript numbers: every comparison with NaN is false.
LessEqZero(v) == v.type = "number" /\ v.value <= 0
GreaterEqZero(v) == v.type = "number" /\ v.value >= 0

\* What reading a key the object does not have answers.
Undefined == [type |-> "undefined"]

\* Number(v) for the values of the model: null is 0, undefined is NaN.
ToNumber(v) ==
    CASE v.type = "null" -> Num(0)
      [] v.type = "undefined" -> NaN
      [] OTHER -> v

\* The gap between neighbouring numbers at n's magnitude: a number is a
\* significand of MantissaBits bits times a power of two.
RECURSIVE Spacing(_, _)
Spacing(n, u) ==
    IF n \div u < 2 ^ MantissaBits THEN u ELSE Spacing(n, 2 * u)

\* The number an arithmetic result is stored as: the nearest one there is,
\* the one with the even significand when two are equally near.
RoundToNearest(n) ==
    LET a == IF n < 0 THEN -n ELSE n
        u == Spacing(a, 1)
        q == a \div u
        r == a % u
        m == IF 2 * r > u \/ (2 * r = u /\ q % 2 = 1)
             THEN (q + 1) * u ELSE q * u
    IN  IF n < 0 THEN -m ELSE m

\* a + b on JavaScript numbers: NaN is contagious, the sum is rounded.
JSAdd(a, b) ==
    LET x == ToNumber(a)
        y == ToNumber(b)
    IN  IF x.type = "NaN" \/ y.type = "NaN" THEN NaN
        ELSE Num(RoundToNearest(x.value + y.value))

\* -a
Negate(a) ==
    LET x == ToNumber(a)
    IN  IF x.type = "NaN" THEN NaN ELSE Num(-x.value)

\* a - b
JSSubtract(a, b) == JSAdd(a, Negate(b))

\* a > b: every comparison with NaN is false.
JSGreater(a, b) ==
    LET x == ToNumber(a)
        y == ToNumber(b)
    IN  x.type = "number" /\ y.type = "number" /\ x.value > y.value

\* v || 0: undefined, null, NaN and 0 are falsy.
OrZero(v) ==
    IF v.type = "number" /\ v.value # 0 THEN v ELSE Num(0)

\* n.toFixed(2) of a number without a fractional part; "NaN" for NaN.
ToFixed2(v) ==
    IF v.type = "NaN" THEN "NaN" ELSE ToString(v.value) \o ".00"

\* The order localeCompare puts the texts of the model in.
Collation ==
    <<"", "Bus", "Entertainment", "Food", "Gift", "Healthcare", "Housing",
      "Lunch", "Other", "Rent", "Shopping", "Soap", "Taxi", "Transport",
      "Utilities">>

\* a.localeCompare(b): negative, 0 or positive.
LocaleCompare(a, b) ==
    LET rank(text) == CHOOSE i \in 1..Len(Collation) : Collation[i] = text
    IN  rank(a) - rank(b)

\* lines.join(separator)
RECURSIVE Join(_, _)
Join(lines, separator) ==
    IF Len(lines) = 0 THEN ""
    ELSE IF Len(lines) = 1 THEN lines[1]
    ELSE lines[1] \o separator \o Join(Tail(lines), separator)

\* { ...a, ...b }: the keys of both, b's value where both have the key.
Spread(a, b) ==
    [k \in DOMAIN a \cup DOMAIN b |-> IF k \in DOMAIN b THEN b[k] ELSE a[k]]

\* text.trim()
Trim(text) ==
    CASE text = " " -> ""
      [] text = " Bus " -> "Bus"
      [] OTHER -> text

---------------------------------------------------------------------------
(* The clock and the calendar.                                             *)

\* The local calendar month of clock reading t.  The run starts in
\* December 2023 and the month rolls over every TicksPerMonth readings.
LocalYearMonth(t) ==
    LET months == 11 + (t \div TicksPerMonth)
    IN  [year |-> 2023 + (months \div 12), month |-> (months % 12) + 1]

PadStart2(m) == IF m < 10 THEN "0" \o ToString(m) ELSE ToString(m)

MonthToken(ym) == ToString(ym.year) \o "-" \o PadStart2(ym.month)

getCurrentMonth(t) == MonthToken(LocalYearMonth(t))

\* new Date().toISOString(): one text per instant.
ToISOString(t) == "T" \o ToString(t)

\* The calendar dates the model's date texts denote; any other text is an
\* Invalid Date.
DateTable ==
    ("2023-12-31" :> [year |-> 2023, month |-> 12, day |-> 31]) @@
    ("2024-01-01" :> [year |-> 2024, month |-> 1, day |-> 1]) @@
    ("2024-01-15" :> [year |-> 2024, month |-> 1, day |-> 15])

\* new Date(text) read back with getFullYear() / getMonth() + 1.  A date-only
\* text is midnight UTC; the getters answer in local time, which west of
\* Greenwich is still the evening of the day before.
LocalMonthOfDate(text, zone) ==
    IF text \notin DOMAIN DateTable THEN [year |-> -1, month |-> -1]
    ELSE LET d == DateTable[text]
         IN  IF zone >= 0 \/ d.day > 1 THEN [year |-> d.year, month |-> d.month]
             ELSE IF d.month = 1 THEN [year |-> d.year - 1, month |-> 12]
             ELSE [year |-> d.year, month |-> d.month - 1]

\* new Date(text).getTime(), in days, up to a constant; NaN for an
\* Invalid Date.
DateValue(text) ==
    IF text \notin DOMAIN DateTable THEN NaN
    ELSE LET d == DateTable[text]
         IN  Num((d.year * 12 + (d.month - 1)) * 31 + d.day)

\* The months the clock of the model goes through.
YearMonths == {LocalYearMonth(t) : t \in 0..MaxNow}
MonthTokens == {MonthToken(ym) : ym \in YearMonths}

\* month.split('-').map(Number): the year and the month a token is
\* written from.
AllYearMonths == {[year |-> y, month |-> m] : y \in 2022..2025, m \in 1..12}
SplitMonth(token) == CHOOSE ym \in AllYearMonths : MonthToken(ym) = token

\* The month index taken into 0..11 without carrying into the year.
NormalizeMonthKeepsYear(year, monthIndex) ==
    [year |-> year, month |-> (monthIndex % 12) + 1]

\* new Date(year, monthIndex, 1) read back with getFullYear() and
\* getMonth() + 1: an index outside 0..11 carries into the year.
NormalizeMonth(year, monthIndex) ==
    [year |-> year + (monthIndex \div 12), month |-> (monthIndex % 12) + 1]

\* date.toLocaleString('default', { month: 'short', year: 'numeric' }), in
\* an English locale.
ShortMonths ==
    <<"Jan", "Feb", "Mar", "Apr", "May", "Jun",
      "Jul", "Aug", "Sep", "Oct", "Nov", "Dec">>
MonthLabel(ym) == ShortMonths[ym.month] \o " " \o ToString(ym.year)

---------------------------------------------------------------------------
(* The document.                                                           *)

Categories ==
    {"Housing", "Food", "Transport", "Utilities",
     "Entertainment", "Healthcare", "Shopping", "Other"}

DefaultBudgets ==
    [Housing |-> Num(50000), Food |-> Num(30000), Transport |-> Num(20000),
     Utilities |-> Num(15000), Entertainment |-> Num(10000),
     Healthcare |-> Num(10000), Shopping |-> Num(15000), Other |-> Num(20000)]

\* defaultState as the module builds it at clock reading t.
DefaultStateAt(t) ==
    [currency |-> "JMD",
     monthlyIncome |-> Num(MONTHLY_INCOME_JMD),
     expenses |-> <<>>,
     budgets |-> DefaultBudgets,
     currentMonth |-> getCurrentMonth(t)]

---------------------------------------------------------------------------
(* localStorage and JSON.                                                  *)

Absent == [kind |-> "absent"]          \* getItem answers null
Garbage == [kind |-> "garbage"]        \* a text JSON.parse rejects
JSONText(v) == [kind |-> "json", value |-> v]

\* JSON has no NaN and no Infinity: JSON.stringify writes null for them.
ToJSONNumber(v) == IF IsFinite(v) THEN v ELSE Null

ToJSONExpense(e) == [e EXCEPT !["amount"] = ToJSONNumber(@)]

\* JSON.stringify(data), as the value JSON.parse reads back from it.
JSONStringify(data) ==
    JSONText([data EXCEPT
        !["monthlyIncome"] = ToJSONNumber(@),
        !["expenses"] = [i \in 1..Len(@) |-> ToJSONExpense(@[i])],
        !["budgets"] = [c \in DOMAIN @ |-> ToJSONNumber(@[c])]])

\* The path loadData takes: the read throws, the key is absent, the text
\* does not parse, or the parsed object is merged over the defaults.
LoadPath(store, readThrows) ==
    IF readThrows THEN "readError"
    ELSE IF store.kind = "absent" THEN "absent"
    ELSE IF store.kind = "garbage" THEN "parseError"
    ELSE "merged"

\* The merge with the spreads in the wrong order: defaults over the parsed.
MergeLoadedDefaultsWin(def, parsed, t) ==
    Spread(Spread(parsed, def), [currentMonth |-> getCurrentMonth(t)])

\* { ...defaultState, ...parsed, currentMonth: getCurrentMonth() }
MergeLoaded(def, parsed, t) ==
    Spread(Spread(def, parsed), [currentMonth |-> getCurrentMonth(t)])

\* loadData(): the document returned, and which of its fields are the very
\* objects defaultState holds (a spread copies references, not contents).
loadData(store, readThrows, def, t) ==
    LET path == LoadPath(store, readThrows)
    IN  IF path = "merged"
        THEN [path |-> path,
              doc |-> MergeLoaded(def, store.value, t),
              alias |-> [expenses |-> "expenses" \notin DOMAIN store.value,
                         budgets |-> "budgets" \notin DOMAIN store.value]]
        ELSE [path |-> path,
              doc |-> def,
              alias |-> [expenses |-> TRUE, budgets |-> TRUE]]

\* saveData with a failed write wiping the key instead of leaving it alone.
saveDataDropsOnFailure(data, store, writeOk) ==
    [ret |-> writeOk,
     storage |-> IF writeOk THEN JSONStringify(data) ELSE Absent]

\* saveData(data): JSON.stringify and setItem either store the text or throw
\* (quota, a value JSON cannot write); the catch answers false.
saveData(data, store, writeOk) ==
    [ret |-> writeOk,
     storage |-> IF writeOk THEN JSONStringify(data) ELSE store]

---------------------------------------------------------------------------
(* The store operations, as functions of the document.                     *)

NewExpense(expense, t) ==
    [id |-> t,
     name |-> expense.name,
     category |-> expense.category,
     amount |-> ParseFloat(expense.amount),
     date |-> expense.date,
     notes |-> IF "notes" \in DOMAIN expense THEN expense.notes ELSE "",
     createdAt |-> ToISOString(t)]

addExpense(state, expense, t) ==
    [state EXCEPT !["expenses"] = Append(@, NewExpense(expense, t))]

\* The filter with its test inverted: it keeps the expense it should drop.
deleteExpenseKeepsMatch(state, id) ==
    [state EXCEPT !["expenses"] = SelectSeq(@, LAMBDA e : e.id = id)]

deleteExpense(state, id) ==
    [state EXCEPT !["expenses"] = SelectSeq(@, LAMBDA e : e.id # id)]

\* findIndex: the first index whose expense has the id, 0 when there is none.
FindIndex(expenses, id) ==
    IF \E i \in 1..Len(expenses) : expenses[i].id = id
    THEN CHOOSE i \in 1..Len(expenses) :
            /\ expenses[i].id = id
            /\ \A j \in 1..(i - 1) : expenses[j].id # id
    ELSE 0

updateExpense(state, id, updates) ==
    LET index == FindIndex(state.expenses, id)
    IN  IF index # 0
        THEN [state EXCEPT !["expenses"][index] = Spread(@, updates)]
        ELSE state

InMonth(expense, token, zone) ==
    LocalMonthOfDate(expense.date, zone) = SplitMonth(token)

getExpensesForMonth(state, token, zone) ==
    SelectSeq(state.expenses, LAMBDA e : InMonth(e, token, zone))

clearMonthExpenses(state, token, zone) ==
    [state EXCEPT
        !["expenses"] = SelectSeq(@, LAMBDA e : ~ InMonth(e, token, zone))]

\* expenses.reduce((total, expense) => total + expense.amount, total)
RECURSIVE ReduceAmounts(_, _)
ReduceAmounts(expenses, total) ==
    IF Len(expenses) = 0 THEN total
    ELSE ReduceAmounts(Tail(expenses), JSAdd(total, Head(expenses).amount))

getTotalExpenses(state, token, zone) ==
    ReduceAmounts(getExpensesForMonth(state, token, zone), Num(0))

\* The object getExpensesByCategory builds: one key per category met, with
\* the running total, the count and the expenses of that category.
getExpensesByCategory(state, token, zone) ==
    LET expenses == getExpensesForMonth(state, token, zone)
        met == {expenses[i].category : i \in 1..Len(expenses)}
        of(c) == SelectSeq(expenses, LAMBDA e : e.category = c)
    IN  [c \in met |->
            [total |-> ReduceAmounts(of(c), Num(0)),
             count |-> Len(of(c)),
             expenses |-> of(c)]]

\* getSpendingTrend(state, months) at clock reading t: for i from
\* months - 1 down to 0, the month i months before the current one.
getSpendingTrend(state, months, t, zone) ==
    [k \in 1..months |->
        LET i == months - k
            date == NormalizeMonth(LocalYearMonth(t).year,
                                   (LocalYearMonth(t).month - 1) - i)
            monthKey == MonthToken(date)
        IN  [month |-> monthKey,
             label |-> MonthLabel(date),
             total |-> getTotalExpenses(state, monthKey, zone)]]

updateBudget(state, category, amount) ==
    [state EXCEPT !["budgets"] = Spread(@, (category :> ParseFloat(amount)))]

\* A write into an array or object that defaultState also holds is a write
\* into defaultState.
WriteThrough(def, state, al) ==
    [def EXCEPT
        !["expenses"] = IF al.expenses THEN state.expenses ELSE @,
        !["budgets"] = IF al.budgets THEN state.budgets ELSE @]

---------------------------------------------------------------------------
(* Validation and the handlers of the application module.                  *)

\* validateExpense(expense).errors: one message per failed check, in order.
ValidationErrors(expense) ==
    (IF expense.name = "" \/ Trim(expense.name) = ""
        THEN <<"Expense name is required">> ELSE <<>>)
    \o (IF expense.category = ""
        THEN <<"Category is required">> ELSE <<>>)
    \o (IF expense.amount = "" \/ LessEqZero(ParseFloat(expense.amount))
        THEN <<"Amount must be greater than 0">> ELSE <<>>)
    \o (IF expense.date = ""
        THEN <<"Date is required">> ELSE <<>>)

validateExpense(expense) ==
    [isValid |-> Len(ValidationErrors(expense)) = 0,
     errors |-> ValidationErrors(expense)]

\* The comparison of the sort callback for a criteria.
Comparison(a, b, criteria) ==
    CASE criteria = "date" -> JSSubtract(DateValue(a.date), DateValue(b.date))
      [] criteria = "amount" -> JSSubtract(a.amount, b.amount)
      [] criteria = "name" -> Num(LocaleCompare(a.name, b.name))
      [] criteria = "category" -> Num(LocaleCompare(a.category, b.category))
      [] OTHER -> Num(0)

\* The callback with the order left out of account.
ComparatorIgnoresOrder(a, b, criteria, order) ==
    LET c == Comparison(a, b, criteria)
    IN  IF c.type = "NaN" THEN 0 ELSE c.value

\* The callback as sort reads it: order === 'desc' ? -comparison :
\* comparison, and a NaN answer counts as 0.
Comparator(a, b, criteria, order) ==
    LET c == IF order = "desc" THEN Negate(Comparison(a, b, criteria))
             ELSE Comparison(a, b, criteria)
    IN  IF c.type = "NaN" THEN 0 ELSE c.value

\* The callback is a consistent comparator for the list: comparing as
\* equal is transitive.  (It fails when a NaN answer makes one element
\* equal to two that differ.)
ConsistentComparator(expenses, criteria, order) ==
    \A i, j, k \in 1..Len(expenses) :
        (/\ Comparator(expenses[i], expenses[j], criteria, order) = 0
         /\ Comparator(expenses[j], expenses[k], criteria, order) = 0)
            => Comparator(expenses[i], expenses[k], criteria, order) = 0

\* The order a stable sort puts the indices of the list in: ascending by
\* the callback, indices that compare as equal in their original order.
SortedOrder(expenses, criteria, order) ==
    CHOOSE f \in Permutations(1..Len(expenses)) :
        \A i, j \in 1..Len(expenses) : i < j =>
            LET c == Comparator(expenses[f[i]], expenses[f[j]],
                                criteria, order)
            IN  c < 0 \/ (c = 0 /\ f[i] < f[j])

\* The sort that keeps only the first of the elements that tie.
StableSortDropsTies(expenses, criteria, order) ==
    LET p == SortedOrder(expenses, criteria, order)
        first == {i \in 1..Len(expenses) :
                    \A j \in 1..(i - 1) :
                        Comparator(expenses[j], expenses[i],
                                   criteria, order) # 0}
    IN  SelectSeq([i \in 1..Len(expenses) |-> expenses[p[i]]],
                  LAMBDA e : \E i \in first : expenses[i] = e)

\* Array.prototype.sort with a consistent comparator.
StableSort(expenses, criteria, order) ==
    LET p == SortedOrder(expenses, criteria, order)
    IN  [i \in 1..Len(expenses) |-> expenses[p[i]]]

\* sortExpenses(expenses, criteria, order): the arrays it may return.  It
\* sorts a copy; with a comparator that is not consistent the order sort
\* leaves the copy in is implementation-defined.
sortExpenses(expenses, criteria, order) ==
    IF ConsistentComparator(expenses, criteria, order)
    THEN {StableSort(expenses, criteria, order)}
    ELSE {[i \in 1..Len(expenses) |-> expenses[f[i]]] :
            f \in Permutations(1..Len(expenses))}

\* byCategory[exp.category] after the forEach over the expenses of one
\* category: (byCategory[exp.category] || 0) + exp.amount, one at a time.
RECURSIVE SpentInCategory(_, _)
SpentInCategory(expenses, spent) ==
    IF Len(expenses) = 0 THEN spent
    ELSE SpentInCategory(Tail(expenses),
                         JSAdd(OrZero(spent), Head(expenses).amount))

\* getSpendingInsights(expenses, income, budgets), without the fields that
\* are quotients (savingsRate, averageExpense) and the highest category.
getSpendingInsights(expenses, income, budgets) ==
    LET total == ReduceAmounts(expenses, Num(0))
        met == {expenses[i].category : i \in 1..Len(expenses)}
        byCategory ==
            [c \in met |->
                SpentInCategory(SelectSeq(expenses, LAMBDA e : e.category = c),
                                Undefined)]
        budget(c) == IF c \in DOMAIN budgets THEN budgets[c] ELSE Undefined
        overBudget == {c \in met : JSGreater(byCategory[c], OrZero(budget(c)))}
    IN  [totalSpent |-> total,
         remaining |-> JSSubtract(income, total),
         overBudgetCount |-> Cardinality(overBudget),
         expenseCount |-> Len(expenses)]

\* One row of the CSV: the five cells joined by commas.
CSVRow(expense) ==
    Join(<<expense.date,
           "\"" \o expense.name \o "\"",
           expense.category,
           ToFixed2(expense.amount),
           "\"" \o (IF "notes" \in DOMAIN expense THEN expense.notes ELSE "")
                \o "\"">>, ",")

CSVHeader == Join(<<"Date", "Name", "Category", "Amount", "Notes">>, ",")

\* generateExpensesCSV(expenses)
generateExpensesCSV(expenses) ==
    Join(<<CSVHeader>> \o [i \in 1..Len(expenses) |-> CSVRow(expenses[i])],
         "\n")

\* The draft handleAddExpense reads from the form.
FormExpense(form) ==
    [name |-> Trim(form.name),
     category |-> form.category,
     amount |-> form.amount,
     date |-> form.date,
     notes |-> Trim(form.notes)]

\* The test without its last conjunct: the sign of the number is not looked
\* at.
BudgetAcceptedAnySign(answer) ==
    /\ ~ answer.cancelled
    /\ ~ IsNaNText(answer.text)
    /\ IsFinite(ParseFloat(answer.text))

\* newBudget !== null && !isNaN(newBudget) && parseFloat(newBudget) >= 0
BudgetAccepted(answer) ==
    /\ ~ answer.cancelled
    /\ ~ IsNaNText(answer.text)
    /\ GreaterEqZero(ParseFloat(answer.text))

\* The timer slot of a debounced function before any call.
NoTimer == [armed |-> FALSE]

\* The returned function with clearTimeout left without effect: the
\* callback of the first pending timer is the one that runs, when that
\* timer is due.
executedFunctionKeepsTimer(timer, args, wait) ==
    IF timer.armed THEN timer
    ELSE [armed |-> TRUE, remaining |-> wait, args |-> args]

\* executedFunction(...args): clearTimeout(timeout) drops the pending timer
\* and setTimeout(later, wait) arms one that holds these args.
executedFunction(timer, args, wait) ==
    [armed |-> TRUE, remaining |-> wait, args |-> args]

---------------------------------------------------------------------------
(* The inputs of the model.                                                *)

\* The host's offset from UTC, in hours, at the moment of a call.
TimeZones == {-5, 1}

\* What the storage key may hold when the page opens: nothing, a text that
\* does not parse, a document of an older version of the page.
LegacyDocument ==
    JSONText([budgets |-> [Food |-> Num(450), Housing |-> Num(25000)],
              currentMonth |-> "2023-11"])

InitialStorage == {Absent, Garbage, LegacyDocument}

Drafts ==
    {[name |-> "Rent", category |-> "Housing", amount |-> "1200",
      date |-> "2024-01-01", notes |-> ""],
     [name |-> "Bus", category |-> "Transport", amount |-> "abc",
      date |-> "2023-12-31", notes |-> "late"]}

Ids == 0..MaxNow

Updates ==
    {[name |-> "Taxi", id |-> MaxNow, createdAt |-> ToISOString(MaxNow)]}

BudgetEdits ==
    {[category |-> "Food", amount |-> "25000"],
     [category |-> "Pets", amount |-> "abc"]}

Forms ==
    {[name |-> " Bus ", category |-> "Transport", amount |-> "450",
      date |-> "2024-01-15", notes |-> " "],
     [name |-> "Rent", category |-> "Housing", amount |-> "abc",
      date |-> "2024-01-01", notes |-> ""],
     [name |-> " ", category |-> "Food", amount |-> "450",
      date |-> "2024-01-15", notes |-> ""],
     [name |-> "Rent", category |-> "", amount |-> "-5",
      date |-> "", notes |-> ""],
     [name |-> "Rent", category |-> "Housing", amount |-> "0",
      date |-> "2024-01-01", notes |-> ""]}

EditCategories == {"Food"}

PromptAnswers ==
    {[cancelled |-> TRUE, text |-> ""]}
    \cup {[cancelled |-> FALSE, text |-> x] : x \in {"", "abc", "-5", "25000"}}

\* The edit buttons and the answers of a session that only edits budgets.
BudgetButtons == {"Food", "Housing", "Other"}

BudgetAnswers ==
    {[cancelled |-> TRUE, text |-> ""]}
    \cup {[cancelled |-> FALSE, text |-> x] :
            x \in {"", " ", "abc", "12abc", "-5", "0", "450", "25000"}}

\* The expenses the lists given to the pure functions are made of: two
\* with the same amount, two in the same category, one on the first day of
\* a month, one whose amount addExpense parsed to NaN, one (imported) with
\* a date that does not parse and no notes.
ExpensePool ==
    {[id |-> 1, name |-> "Rent", category |-> "Housing",
      amount |-> Num(25000), date |-> "2024-01-15", notes |-> "",
      createdAt |-> ToISOString(1)],
     [id |-> 2, name |-> "Bus", category |-> "Transport",
      amount |-> Num(450), date |-> "2024-01-15", notes |-> "late",
      createdAt |-> ToISOString(2)],
     [id |-> 3, name |-> "Soap", category |-> "Housing",
      amount |-> Num(12), date |-> "2024-01-01", notes |-> "",
      createdAt |-> ToISOString(3)],
     [id |-> 4, name |-> "Taxi", category |-> "Transport",
      amount |-> Num(450), date |-> "2023-12-31", notes |-> "",
      createdAt |-> ToISOString(4)],
     [id |-> 5, name |-> "Gift", category |-> "Other",
      amount |-> NaN, date |-> "2024-01-15", notes |-> "",
      createdAt |-> ToISOString(5)],
     [id |-> 6, name |-> "Lunch", category |-> "Other",
      amount |-> Num(1200), date |-> "n/a",
      createdAt |-> ToISOString(6)]}

\* The lists of at most MaxListLen different expenses of the pool.
ExpenseLists ==
    UNION {{list \in [1..n -> ExpensePool] :
                \A i, j \in 1..n : i # j => list[i] # list[j]} :
           n \in 0..MaxListLen}

\* The budgets of a document: the defaults, or those of an older version.
QueryBudgets == {DefaultBudgets, LegacyDocument.value.budgets}

\* What the search box holds at an input event.
SearchTerms == {"r", "re", "ren"}

SortCriteria == {"date", "amount", "name", "category"}
SortOrders == {"asc", "desc"}

---------------------------------------------------------------------------
(* The state after the scripts have loaded and initApp has called          *)
(* loadData(), all at the first clock reading.                             *)

InitWith(stores) ==
    /\ now = 0
    /\ storage \in stores
    /\ defaultState = DefaultStateAt(0)
    /\ LET r == loadData(storage, FALSE, defaultState, 0)
       IN  /\ appState = r.doc
           /\ alias = r.alias
           /\ last = [op |-> "loadData", path |-> r.path,
                      after |-> [op |-> "none"]]
    /\ maxId = -1
    /\ timeout = NoTimer

\* The page opens on whatever the storage key holds.
Init == InitWith(InitialStorage)

\* The page opens for the first time: the storage key is absent.
InitFresh == InitWith({Absent})

\* A session some way in: the document holds expenses earlier sessions
\* left and this one added.
InitSession(readings, budgetChoices) ==
    /\ now \in readings
    /\ storage = Absent
    /\ defaultState = DefaultStateAt(now)
    /\ appState \in {[DefaultStateAt(now) EXCEPT !["expenses"] = list,
                                                  !["budgets"] = budgets] :
                        list \in ExpenseLists, budgets \in budgetChoices}
    /\ alias = [expenses |-> FALSE, budgets |-> FALSE]
    /\ maxId = -1
    /\ last = [op |-> "none"]
    /\ timeout = NoTimer

\* At any clock reading, with the default budgets or older ones.
InitQuery == InitSession(0..MaxNow, QueryBudgets)

\* At the first clock reading, with the default budgets.
InitLists == InitSession({0}, {DefaultBudgets})

\* setupEventListeners() has wrapped the search handler: no input event
\* yet, no timer.  The history counts the calls of the debounced function
\* and of the handler, and the time since the last call.
InitDebounce ==
    /\ now = 0
    /\ storage = Absent
    /\ defaultState = DefaultStateAt(0)
    /\ appState = loadData(storage, FALSE, defaultState, 0).doc
    /\ alias = loadData(storage, FALSE, defaultState, 0).alias
    /\ maxId = -1
    /\ timeout = NoTimer
    /\ last = [op |-> "debounce", calls |-> 0, invoked |-> 0, args |-> "",
               sinceCall |-> 0, served |-> FALSE, funcArgs |-> ""]

---------------------------------------------------------------------------
(* The clock.                                                              *)

Tick ==
    /\ now < MaxNow
    /\ now' = now + 1
    /\ last' = [op |-> "tick"]
    /\ UNCHANGED <<timeout, storage, defaultState, appState, alias, maxId>>

(* The calls of js/data.js on the document the caller holds.               *)

LoadData ==
    \E readThrows \in BOOLEAN :
        LET r == loadData(storage, readThrows, defaultState, now)
        IN  /\ appState' = r.doc
            /\ alias' = r.alias
            /\ last' = [op |-> "loadData", path |-> r.path,
                        after |-> IF last.op = "saveData" THEN last
                                  ELSE [op |-> "none"]]
            /\ UNCHANGED <<timeout, now, storage, defaultState, maxId>>

SaveData ==
    \E writeOk \in BOOLEAN :
        LET r == saveData(appState, storage, writeOk)
        IN  /\ storage' = r.storage
            /\ last' = [op |-> "saveData", ret |-> r.ret, data |-> appState,
                        written |-> writeOk]
            /\ UNCHANGED <<timeout, now, defaultState, appState, alias, maxId>>

AddExpense ==
    \E expense \in Drafts :
        /\ Len(appState.expenses) < MaxExpenses
        /\ appState' = addExpense(appState, expense, now)
        /\ defaultState' = WriteThrough(defaultState, appState', alias)
        /\ maxId' = IF now > maxId THEN now ELSE maxId
        /\ last' = [op |-> "addExpense", id |-> now,
                    before |-> appState.expenses]
        /\ UNCHANGED <<timeout, now, storage, alias>>

DeleteExpense ==
    \E id \in Ids :
        /\ appState' = deleteExpense(appState, id)
        /\ alias' = [alias EXCEPT !.expenses = FALSE]
        /\ last' = [op |-> "deleteExpense", id |-> id,
                    found |-> FindIndex(appState.expenses, id) # 0]
        /\ UNCHANGED <<timeout, now, storage, defaultState, maxId>>

UpdateExpense ==
    \E id \in Ids, updates \in Updates :
        /\ appState' = updateExpense(appState, id, updates)
        /\ defaultState' = WriteThrough(defaultState, appState', alias)
        /\ last' = [op |-> "updateExpense", id |-> id,
                    found |-> FindIndex(appState.expenses, id) # 0]
        /\ UNCHANGED <<timeout, now, storage, alias, maxId>>

ClearMonthExpenses ==
    \E token \in MonthTokens, zone \in TimeZones :
        /\ appState' = clearMonthExpenses(appState, token, zone)
        /\ alias' = [alias EXCEPT !.expenses = FALSE]
        /\ last' = [op |-> "clearMonthExpenses", month |-> token,
                    zone |-> zone]
        /\ UNCHANGED <<timeout, now, storage, defaultState, maxId>>

UpdateBudget ==
    \E edit \in BudgetEdits :
        /\ appState' = updateBudget(appState, edit.category, edit.amount)
        /\ defaultState' = WriteThrough(defaultState, appState', alias)
        /\ last' = [op |-> "updateBudget", category |-> edit.category]
        /\ UNCHANGED <<timeout, now, storage, alias, maxId>>

(* The handlers of the application module.                                 *)

\* handleAddExpense(e): an invalid draft is reported and nothing else
\* happens; a valid one is added and the document is saved.
HandleAddExpense ==
    \E form \in Forms, writeOk \in BOOLEAN :
        LET expense == FormExpense(form)
            validation == validateExpense(expense)
        IN  IF ~ validation.isValid
            THEN /\ last' = [op |-> "handleAddExpense", isValid |-> FALSE]
                 /\ UNCHANGED <<timeout, now, storage, defaultState, appState,
                                alias, maxId>>
            ELSE /\ Len(appState.expenses) < MaxExpenses
                 /\ appState' = addExpense(appState, expense, now)
                 /\ defaultState' = WriteThrough(defaultState, appState', alias)
                 /\ storage' = saveData(appState', storage, writeOk).storage
                 /\ maxId' = IF now > maxId THEN now ELSE maxId
                 /\ last' = [op |-> "handleAddExpense", isValid |-> TRUE,
                             saved |->
                                 saveData(appState', storage, writeOk).ret]
                 /\ UNCHANGED <<timeout, now, alias>>

\* handleDeleteExpense(id): nothing happens unless the user confirms.
HandleDeleteExpense ==
    \E id \in Ids, confirmed \in BOOLEAN, writeOk \in BOOLEAN :
        IF ~ confirmed
        THEN /\ last' = [op |-> "handleDeleteExpense", confirmed |-> FALSE]
             /\ UNCHANGED <<timeout, now, storage, defaultState, appState,
                            alias, maxId>>
        ELSE /\ appState' = deleteExpense(appState, id)
             /\ alias' = [alias EXCEPT !.expenses = FALSE]
             /\ storage' = saveData(appState', storage, writeOk).storage
             /\ last' = [op |-> "handleDeleteExpense", confirmed |-> TRUE,
                         saved |-> saveData(appState', storage, writeOk).ret]
             /\ UNCHANGED <<timeout, now, defaultState, maxId>>

\* handleEditBudget(e): the answer to the prompt is applied when accepted.
HandleEditBudgetOn(buttons, answers) ==
    \E category \in buttons, answer \in answers, writeOk \in BOOLEAN :
        IF ~ BudgetAccepted(answer)
        THEN /\ last' = [op |-> "handleEditBudget", accepted |-> FALSE,
                         category |-> category, answer |-> answer]
             /\ UNCHANGED <<timeout, now, storage, defaultState, appState,
                            alias, maxId>>
        ELSE /\ appState' = updateBudget(appState, category, answer.text)
             /\ defaultState' = WriteThrough(defaultState, appState', alias)
             /\ storage' = saveData(appState', storage, writeOk).storage
             /\ last' = [op |-> "handleEditBudget", accepted |-> TRUE,
                         category |-> category, answer |-> answer,
                         saved |-> saveData(appState', storage, writeOk).ret]
             /\ UNCHANGED <<timeout, now, alias, maxId>>

\* A click on the one edit button of the page model.
HandleEditBudget == HandleEditBudgetOn(EditCategories, PromptAnswers)

\* A click on any of several edit buttons.
HandleEditAnyBudget == HandleEditBudgetOn(BudgetButtons, BudgetAnswers)

\* The timer initApp sets: saveData(appState) every 30 seconds.
AutoSave ==
    \E writeOk \in BOOLEAN :
        /\ storage' = saveData(appState, storage, writeOk).storage
        /\ last' = [op |-> "autoSave",
                    ret |-> saveData(appState, storage, writeOk).ret]
        /\ UNCHANGED <<timeout, now, defaultState, appState, alias, maxId>>

(* The functions that read the document and change nothing.               *)

SortExpenses ==
    \E criteria \in SortCriteria, order \in SortOrders :
        \E sorted \in sortExpenses(appState.expenses, criteria, order) :
            /\ last' = [op |-> "sortExpenses", criteria |-> criteria,
                        order |-> order, result |-> sorted]
            /\ UNCHANGED <<now, storage, defaultState, appState, alias, maxId,
                           timeout>>

GetExpensesForMonth ==
    \E token \in MonthTokens, zone \in TimeZones :
        /\ last' = [op |-> "getExpensesForMonth", month |-> token,
                    zone |-> zone,
                    result |-> getExpensesForMonth(appState, token, zone)]
        /\ UNCHANGED <<now, storage, defaultState, appState, alias, maxId,
                       timeout>>

GetTotalExpenses ==
    \E token \in MonthTokens, zone \in TimeZones :
        /\ last' = [op |-> "getTotalExpenses", month |-> token,
                    zone |-> zone,
                    result |-> getTotalExpenses(appState, token, zone)]
        /\ UNCHANGED <<now, storage, defaultState, appState, alias, maxId,
                       timeout>>

GetExpensesByCategory ==
    \E token \in MonthTokens, zone \in TimeZones :
        /\ last' = [op |-> "getExpensesByCategory", month |-> token,
                    zone |-> zone,
                    result |-> getExpensesByCategory(appState, token, zone)]
        /\ UNCHANGED <<now, storage, defaultState, appState, alias, maxId,
                       timeout>>

GetSpendingTrend ==
    \E zone \in TimeZones :
        /\ last' = [op |-> "getSpendingTrend", zone |-> zone,
                    result |-> getSpendingTrend(appState, TrendMonths,
                                                now, zone)]
        /\ UNCHANGED <<now, storage, defaultState, appState, alias, maxId,
                       timeout>>

\* renderInsights(): the insights of the expenses, against the fixed
\* income and the document's budgets.
GetSpendingInsights ==
    /\ last' = [op |-> "getSpendingInsights",
                result |-> getSpendingInsights(appState.expenses,
                                               Num(MONTHLY_INCOME_JMD),
                                               appState.budgets)]
    /\ UNCHANGED <<now, storage, defaultState, appState, alias, maxId,
                   timeout>>

ValidateExpense ==
    \E form \in Forms :
        /\ last' = [op |-> "validateExpense", expense |-> FormExpense(form),
                    result |-> validateExpense(FormExpense(form))]
        /\ UNCHANGED <<now, storage, defaultState, appState, alias, maxId,
                       timeout>>

GenerateExpensesCSV ==
    /\ last' = [op |-> "generateExpensesCSV",
                result |-> generateExpensesCSV(appState.expenses)]
    /\ UNCHANGED <<now, storage, defaultState, appState, alias, maxId,
                   timeout>>

(* The debounced search handler: debounce(handleSearch, 300).              *)

\* An input event: the function debounce returned is called.
ExecutedFunction ==
    \E args \in SearchTerms :
        /\ last.calls < MaxCalls
        /\ timeout' = executedFunction(timeout, args, Wait)
        /\ last' = [last EXCEPT !.op = "executedFunction",
                                !.calls = @ + 1,
                                !.args = args,
                                !.sinceCall = 0,
                                !.served = FALSE]
        /\ UNCHANGED <<now, storage, defaultState, appState, alias, maxId>>

\* Time passes while a timer is pending and not yet due.
Elapse ==
    /\ timeout.armed
    /\ timeout.remaining > 0
    /\ timeout' = [timeout EXCEPT !.remaining = @ - 1]
    /\ last' = [last EXCEPT !.op = "elapse", !.sinceCall = @ + 1]
    /\ UNCHANGED <<now, storage, defaultState, appState, alias, maxId>>

\* The pending timer is due and its callback runs: later() clears the
\* timer and calls func with the args of the call that armed it.
Later ==
    /\ timeout.armed
    /\ timeout.remaining = 0
    /\ timeout' = NoTimer
    /\ last' = [last EXCEPT !.op = "later",
                            !.invoked = @ + 1,
                            !.served = TRUE,
                            !.funcArgs = timeout.args]
    /\ UNCHANGED <<now, storage, defaultState, appState, alias, maxId>>

---------------------------------------------------------------------------
(* The specifications.                                                     *)

\* The expense operations of the store, in any order, on a first run.
Next ==
    \/ Tick
    \/ AddExpense
    \/ DeleteExpense
    \/ UpdateExpense
    \/ ClearMonthExpenses

Spec == InitFresh /\ [][Next]_vars

\* Loading again and again, between mutations of the loaded document.
NextLoad ==
    \/ Tick
    \/ LoadData
    \/ UpdateBudget
    \/ AddExpense

SpecLoad == Init /\ [][NextLoad]_vars

\* Saving and loading, between mutations of the document, within one
\* clock reading.
NextPersist ==
    \/ SaveData
    \/ LoadData
    \/ AddExpense
    \/ UpdateBudget

SpecPersist == InitFresh /\ [][NextPersist]_vars

\* The page: the user's actions and the timer.
NextApp ==
    \/ Tick
    \/ HandleAddExpense
    \/ HandleDeleteExpense
    \/ HandleEditBudget
    \/ AutoSave

SpecApp == Init /\ [][NextApp]_vars

\* A first session in which the user only edits budgets.
NextBudget ==
    \/ HandleEditAnyBudget

SpecBudget == InitFresh /\ [][NextBudget]_vars

\* Input events in the search box.  Time does pass, and the event loop
\* does run the callback of a timer that is due.
NextDebounce ==
    \/ ExecutedFunction
    \/ Elapse
    \/ Later

SpecDebounce ==
    InitDebounce /\ [][NextDebounce]_vars
        /\ WF_vars(Elapse) /\ WF_vars(Later)

\* The functions that read the document by month, and the insights.
NextQuery ==
    \/ GetExpensesForMonth
    \/ GetTotalExpenses
    \/ GetExpensesByCategory
    \/ GetSpendingTrend
    \/ GetSpendingInsights

SpecQuery == InitQuery /\ [][NextQuery]_vars

\* The functions of an expense list or of a draft.
NextLists ==
    \/ SortExpenses
    \/ ValidateExpense
    \/ GenerateExpensesCSV

SpecLists == InitLists /\ [][NextLists]_vars

---------------------------------------------------------------------------
(* The claims.                                                             *)

Expenses == appState.expenses

\* The three fields a save followed by a load is said to reproduce.
SameContent(a, b) ==
    /\ a.expenses = b.expenses
    /\ a.budgets = b.budgets
    /\ a.monthlyIncome = b.monthlyIncome

\* v > 0 on JavaScript numbers: false of NaN.
GreaterZero(v) == v.type = "number" /\ v.value > 0

\* No number of the document is NaN (or infinite): JSON can write them all.
NoNaN(doc) ==
    /\ doc.monthlyIncome.type # "NaN"
    /\ \A i \in 1..Len(doc.expenses) : doc.expenses[i].amount.type # "NaN"
    /\ \A c \in DOMAIN doc.budgets : doc.budgets[c].type # "NaN"

\* C1: after any sequence of addExpense, deleteExpense, updateExpense and
\* clearMonthExpenses calls, no two expenses of the document have the same
\* id.  (Two addExpense calls at one clock reading break it.)
C1_UniqueIds ==
    \A i, j \in 1..Len(Expenses) : i # j => Expenses[i].id # Expenses[j].id

\* C2: the id addExpense assigns is strictly greater than every id an
\* earlier addExpense call of the session assigned.
C2_IdsStrictlyIncrease ==
    [][last'.op = "addExpense" => last'.id > maxId]_vars

\* C3: addExpense followed by deleteExpense with the id of the expense just
\* added leaves the expenses list as it was before the addExpense.
C3_AddThenDeleteRestores ==
    [][(/\ last.op = "addExpense"
        /\ last'.op = "deleteExpense"
        /\ last'.id = last.id) => appState'.expenses = last.before]_vars

\* C4: after any sequence of loadData and updateBudget calls the budgets
\* mapping has exactly the 8 fixed category keys.
C4_BudgetKeysFixed == DOMAIN appState.budgets = Categories

\* C5, as claimed: for any document, saveData followed immediately by
\* loadData returns a document with the same expenses, budgets and
\* monthlyIncome.
C5_SaveThenLoad ==
    (last.op = "loadData" /\ last.after.op = "saveData")
        => SameContent(appState, last.after.data)

\* C5, amended: when saveData returned true, the read of the following
\* loadData did not throw and no number of the saved document is NaN or
\* infinite, loadData returns a document with the same expenses, budgets
\* and monthlyIncome.
C5_SaveThenLoadWhenWritten ==
    (/\ last.op = "loadData"
     /\ last.after.op = "saveData"
     /\ last.after.ret
     /\ last.path # "readError"
     /\ NoNaN(last.after.data))
        => SameContent(appState, last.after.data)

\* C5, the case: a document with an expense and an edited budget was saved
\* and then loaded back from the text just written.
C5_Witness ==
    /\ last.op = "loadData"
    /\ last.after.op = "saveData"
    /\ last.after.ret
    /\ last.path = "merged"
    /\ NoNaN(last.after.data)
    /\ Len(last.after.data.expenses) > 0
    /\ last.after.data.budgets # DefaultBudgets

\* C6: the document loadData returns has currentMonth equal to the current
\* Year-Month at the moment of the load, on every path.
C6_CurrentMonthOnLoad ==
    last.op = "loadData" => appState.currentMonth = getCurrentMonth(now)

\* C7: when the key is absent, the text does not parse or the read throws,
\* loadData returns the default document: currency JMD, income 160000,
\* empty expenses, the 8 default budgets.
C7_LoadFallsBackToDefaults ==
    (last.op = "loadData" /\ last.path # "merged")
        => /\ appState.currency = "JMD"
           /\ appState.monthlyIncome = Num(MONTHLY_INCOME_JMD)
           /\ appState.expenses = <<>>
           /\ appState.budgets = DefaultBudgets

\* C8: a draft that fails validateExpense changes neither the expenses nor
\* the storage, and every expense handleAddExpense inserts has a non-blank
\* name, a category, a date and an amount that is a number greater than 0.
C8_OnlyValidExpensesInserted ==
    [][last'.op = "handleAddExpense" =>
        /\ ~ last'.isValid =>
              (appState'.expenses = appState.expenses /\ storage' = storage)
        /\ Len(appState'.expenses) > Len(appState.expenses) =>
              LET e == appState'.expenses[Len(appState'.expenses)]
              IN  /\ Trim(e.name) # ""
                  /\ e.category # ""
                  /\ e.date # ""
                  /\ GreaterZero(e.amount)]_vars

\* C9: deleteExpense or updateExpense with an id that matches no expense
\* leaves the expenses list, the budgets, the income and currentMonth as
\* they were.
C9_UnknownIdIsNoOp ==
    [][(last'.op \in {"deleteExpense", "updateExpense"} /\ ~ last'.found)
        => appState' = appState]_vars

\* C9, the case: deleteExpense was called on a document that has expenses
\* with an id none of them carries.
C9_Witness ==
    /\ last.op = "deleteExpense"
    /\ ~ last.found
    /\ Len(Expenses) > 0

\* C10: updateExpense changes neither the id nor the createdAt of any
\* expense, whatever the partial fields hold.
C10_IdAndCreatedAtImmutable ==
    [][last'.op = "updateExpense" =>
        /\ Len(appState'.expenses) = Len(appState.expenses)
        /\ \A i \in 1..Len(appState.expenses) :
              /\ appState'.expenses[i].id = appState.expenses[i].id
              /\ appState'.expenses[i].createdAt
                    = appState.expenses[i].createdAt]_vars

\* The expenses and the budgets the storage key holds are those of doc.
Persisted(store, doc) ==
    /\ store.kind = "json"
    /\ store.value.expenses = doc.expenses
    /\ store.value.budgets = doc.budgets

\* The call of the step wrote the document: a handler that changed it and
\* whose saveData returned true, or the timer's saveData returning true.
WroteDocument(call) ==
    \/ call.op = "handleAddExpense" /\ call.isValid /\ call.saved
    \/ call.op = "handleDeleteExpense" /\ call.confirmed /\ call.saved
    \/ call.op = "handleEditBudget" /\ call.accepted /\ call.saved
    \/ call.op = "autoSave" /\ call.ret

\* C11: when handleAddExpense (valid draft), handleDeleteExpense (confirmed),
\* handleEditBudget (accepted value) or the 30-second timer has saved and
\* the write succeeded, the persisted expenses and budgets equal the ones
\* in memory.  (An amount that is NaN is persisted as null.)
C11_PersistedEqualsMemory ==
    [][WroteDocument(last') => Persisted(storage', appState')]_vars

\* C12: saveData returns true exactly when the write succeeded, storing the
\* serialized document; when serialization or the write fails it returns
\* false and leaves the persisted content and the document as they were.
C12_SaveReportsOutcome ==
    [][last'.op = "saveData" =>
        /\ last'.ret = last'.written
        /\ appState' = appState
        /\ last'.written => storage' = JSONStringify(appState)
        /\ ~ last'.written => storage' = storage]_vars

\* C12, the case: a save failed while the key held an earlier version of
\* the document.
C12_Witness ==
    /\ last.op = "saveData"
    /\ ~ last.ret
    /\ storage.kind = "json"
    /\ ~ Persisted(storage, appState)

\* C13 and C14 are about sortExpenses, in SpecLists.

Reverse(list) == [i \in 1..Len(list) |-> list[Len(list) + 1 - i]]

\* No two expenses of the list compare as equal by amount: the amounts are
\* numbers and differ pairwise.
NoEqualAmounts(list) ==
    \A i, j \in 1..Len(list) :
        i # j => Comparator(list[i], list[j], "amount", "asc") # 0

\* C13, as claimed: for every expense list, equal amounts included, the
\* ascending sort by amount, reversed, is the descending sort by amount.
C13_ReversedAscIsDesc ==
    (last.op = "sortExpenses" /\ last.criteria = "amount"
                              /\ last.order = "asc")
        => \A desc \in sortExpenses(appState.expenses, "amount", "desc") :
              Reverse(last.result) = desc

\* C13, amended: for every expense list in which no two expenses compare
\* as equal by amount, the ascending sort by amount, reversed, is the
\* descending sort by amount.
C13_ReversedAscIsDescWithoutTies ==
    (/\ last.op = "sortExpenses"
     /\ last.criteria = "amount"
     /\ last.order = "asc"
     /\ NoEqualAmounts(appState.expenses))
        => \A desc \in sortExpenses(appState.expenses, "amount", "desc") :
              Reverse(last.result) = desc

\* C13, the case: a list of three expenses with three different amounts
\* was sorted by amount, ascending, and the sort moved something.
C13_Witness ==
    /\ last.op = "sortExpenses"
    /\ last.criteria = "amount"
    /\ last.order = "asc"
    /\ NoEqualAmounts(appState.expenses)
    /\ Len(appState.expenses) >= 3
    /\ last.result # appState.expenses

\* How many expenses of the list carry the id.
IdCount(list, id) == Cardinality({i \in 1..Len(list) : list[i].id = id})

\* C14: for every criteria and order, sortExpenses returns a list of the
\* same length with the same multiset of ids as its input, and leaves the
\* input list as it was.
C14_SortIsPermutation ==
    [][last'.op = "sortExpenses" =>
        /\ Len(last'.result) = Len(appState.expenses)
        /\ \A id \in {e.id : e \in ExpensePool} :
              IdCount(last'.result, id) = IdCount(appState.expenses, id)
        /\ appState' = appState]_vars

\* C14, the case: a list of three expenses, two of them in one category,
\* was sorted by category and came back in another order.
C14_Witness ==
    /\ last.op = "sortExpenses"
    /\ last.criteria = "category"
    /\ Len(appState.expenses) >= 3
    /\ \E i, j \in 1..Len(appState.expenses) :
          i # j /\ appState.expenses[i].category
                      = appState.expenses[j].category
    /\ last.result # appState.expenses

\* C15 to C18 are about the functions that read a month, in SpecQuery.

\* The year and month written in a YYYY-MM-DD date; none for another text.
CalendarMonthOf(text) ==
    IF text \in DOMAIN DateTable
    THEN [year |-> DateTable[text].year, month |-> DateTable[text].month]
    ELSE [year |-> -1, month |-> -1]

\* C15: getExpensesForMonth returns, in document order, exactly the
\* expenses whose date has the year and month of the token, whatever the
\* host's time zone; an expense whose date does not parse is left out.
C15_MonthFilterByCalendarDate ==
    last.op = "getExpensesForMonth" =>
        last.result = SelectSeq(appState.expenses, LAMBDA e :
                          CalendarMonthOf(e.date) = SplitMonth(last.month))

\* The keys of the object, in the order the expenses created them.
RECURSIVE KeysInOrder(_, _)
KeysInOrder(expenses, seen) ==
    IF Len(expenses) = 0 THEN <<>>
    ELSE IF Head(expenses).category \in seen
         THEN KeysInOrder(Tail(expenses), seen)
         ELSE <<Head(expenses).category>>
              \o KeysInOrder(Tail(expenses),
                             seen \cup {Head(expenses).category})

\* The totals of the keys added up one after the other.
RECURSIVE SumOfTotals(_, _, _)
SumOfTotals(byCategory, keys, sum) ==
    IF Len(keys) = 0 THEN sum
    ELSE SumOfTotals(byCategory, Tail(keys),
                     JSAdd(sum, byCategory[Head(keys)].total))

RECURSIVE SumOfCounts(_, _)
SumOfCounts(byCategory, keys) ==
    IF Len(keys) = 0 THEN 0
    ELSE byCategory[Head(keys)].count + SumOfCounts(byCategory, Tail(keys))

\* C16: the totals of getExpensesByCategory summed over its keys equal
\* getTotalExpenses for the same month, the counts summed equal the number
\* of expenses of the month, and the keys are exactly the categories of
\* the expenses of the month.
C16_CategoryTotalsAddUp ==
    last.op = "getExpensesByCategory" =>
        LET expenses == getExpensesForMonth(appState, last.month, last.zone)
            keys == KeysInOrder(expenses, {})
        IN  /\ SumOfTotals(last.result, keys, Num(0))
                  = getTotalExpenses(appState, last.month, last.zone)
            /\ SumOfCounts(last.result, keys) = Len(expenses)
            /\ DOMAIN last.result
                  = {expenses[i].category : i \in 1..Len(expenses)}

\* The months since year 0 of a year and month.
MonthNumber(ym) == ym.year * 12 + (ym.month - 1)

\* C17: getSpendingTrend(state, 6) returns 6 entries, their months are 6
\* consecutive calendar months, oldest first, the last one is the current
\* Year-Month, and each total is getTotalExpenses of the entry's month.
C17_TrendIsLastSixMonths ==
    last.op = "getSpendingTrend" =>
        /\ Len(last.result) = TrendMonths
        /\ \A k \in 1..(TrendMonths - 1) :
              MonthNumber(SplitMonth(last.result[k + 1].month))
                  = MonthNumber(SplitMonth(last.result[k].month)) + 1
        /\ last.result[TrendMonths].month = getCurrentMonth(now)
        /\ \A k \in 1..TrendMonths :
              last.result[k].total
                  = getTotalExpenses(appState, last.result[k].month, last.zone)

\* C17, the case: the trend was computed early in a year, so that it
\* reaches back into the year before, and a month of that earlier year has
\* spending.
C17_Witness ==
    /\ last.op = "getSpendingTrend"
    /\ LocalYearMonth(now).month < TrendMonths
    /\ \E k \in 1..TrendMonths :
          /\ SplitMonth(last.result[k].month).year < LocalYearMonth(now).year
          /\ GreaterZero(last.result[k].total)

\* C18: overBudgetCount is the number of categories among the expenses
\* whose summed amounts are strictly greater than budgets[category], a
\* category without a budget entry having budget 0.
C18_OverBudgetCount ==
    last.op = "getSpendingInsights" =>
        LET expenses == appState.expenses
            spend(c) ==
                ReduceAmounts(SelectSeq(expenses, LAMBDA e : e.category = c),
                              Num(0))
            budget(c) == IF c \in DOMAIN appState.budgets
                         THEN appState.budgets[c] ELSE Num(0)
        IN  last.result.overBudgetCount
                = Cardinality({c \in {expenses[i].category :
                                         i \in 1..Len(expenses)} :
                                  JSGreater(spend(c), budget(c))})

\* C19 and C20 are about validateExpense and generateExpensesCSV, in
\* SpecLists.

\* One message per failed check, the checks being: name not blank,
\* category present, amount present and greater than 0, date present.
ExpectedErrors(expense) ==
    (IF Trim(expense.name) = ""
        THEN <<"Expense name is required">> ELSE <<>>)
    \o (IF expense.category = ""
        THEN <<"Category is required">> ELSE <<>>)
    \o (IF ~ (expense.amount # "" /\ GreaterZero(ParseFloat(expense.amount)))
        THEN <<"Amount must be greater than 0">> ELSE <<>>)
    \o (IF expense.date = ""
        THEN <<"Date is required">> ELSE <<>>)

\* C19: validateExpense reports exactly one message per failed check, in
\* the fixed order, and isValid is true exactly when no check fails.
C19_OneErrorPerFailedCheck ==
    last.op = "validateExpense" =>
        /\ last.result.errors = ExpectedErrors(last.expense)
        /\ last.result.isValid = (Len(ExpectedErrors(last.expense)) = 0)

\* The row the CSV is said to hold for an expense whose amount is a number.
ExpectedRow(expense) ==
    expense.date \o ",\"" \o expense.name \o "\"," \o expense.category
        \o "," \o ToString(expense.amount.value) \o ".00" \o ",\""
        \o (IF "notes" \in DOMAIN expense THEN expense.notes ELSE "")
        \o "\""

\* C20: generateExpensesCSV returns the header Date,Name,Category,Amount,
\* Notes and one row per expense, in input order, joined by newlines, each
\* row holding the amount with two decimals.
C20_CSVRows ==
    last.op = "generateExpensesCSV" =>
        /\ \A i \in 1..Len(appState.expenses) :
              appState.expenses[i].amount.type = "number"
        /\ last.result
              = Join(<<"Date,Name,Category,Amount,Notes">>
                     \o [i \in 1..Len(appState.expenses) |->
                            ExpectedRow(appState.expenses[i])], "\n")

\* C21: clearMonthExpenses(state, M) removes the expenses whose date is in
\* month M and no other: the expenses of other months remain, unchanged and
\* in their order, getExpensesForMonth(state, M) is empty afterwards, and
\* budgets, income and currentMonth are as they were.
C21_ClearRemovesTheMonth ==
    [][last'.op = "clearMonthExpenses" =>
        /\ appState'.expenses
              = SelectSeq(appState.expenses, LAMBDA e :
                    CalendarMonthOf(e.date) # SplitMonth(last'.month))
        /\ getExpensesForMonth(appState', last'.month, last'.zone) = <<>>
        /\ appState'.budgets = appState.budgets
        /\ appState'.monthlyIncome = appState.monthlyIncome
        /\ appState'.currentMonth = appState.currentMonth]_vars

\* C23: the default document is never affected by what is done to a
\* document obtained earlier: defaultState keeps its empty expenses and its
\* default budgets, so that a later loadData with nothing to read returns
\* them.
C23_DefaultsUntouched ==
    /\ defaultState.expenses = <<>>
    /\ defaultState.budgets = DefaultBudgets
    /\ (last.op = "loadData" /\ last.path # "merged")
          => (appState.expenses = <<>> /\ appState.budgets = DefaultBudgets)

\* The answer is one the handler is said to turn down: the prompt was
\* cancelled, or the text is not numeric, or it is a negative number.
TurnedDown(answer) ==
    \/ answer.cancelled
    \/ IsNaNText(answer.text)
    \/ (IsFinite(ParseFloat(answer.text)) /\ ParseFloat(answer.text).value < 0)

\* C22: from the default document, after any sequence of handleEditBudget
\* interactions every budget is a number greater than or equal to 0, and
\* an answer that is cancelled, not numeric or negative changes no budget
\* and saves nothing.
C22_BudgetsStayNonNegative ==
    /\ [](\A c \in DOMAIN appState.budgets : GreaterEqZero(appState.budgets[c]))
    /\ [][(last'.op = "handleEditBudget" /\ TurnedDown(last'.answer)) =>
            /\ ~ last'.accepted
            /\ appState'.budgets = appState.budgets
            /\ storage' = storage]_vars

\* C22, the cases: a negative answer was turned down after an earlier
\* answer had changed a budget; the answer 0 was accepted.
C22_Witness ==
    /\ last.op = "handleEditBudget"
    /\ \/ /\ ~ last.accepted
          /\ last.answer.text = "-5"
          /\ appState.budgets # DefaultBudgets
          /\ storage.kind = "json"
       \/ /\ last.accepted
          /\ last.answer.text = "0"
          /\ appState.budgets[last.category] = Num(0)

\* C24: func is not invoked while calls keep arriving less than wait apart;
\* after the last call of a burst it is invoked once, wait after that call
\* and with that call's arguments; it is never invoked more often than the
\* debounced function was called.
C24_Debounce ==
    /\ [](last.invoked <= last.calls)
    /\ [][last'.op = "later" =>
            /\ last'.sinceCall >= Wait
            /\ last'.funcArgs = last.args
            /\ ~ last.served]_vars
    /\ (timeout.armed ~> last.served)

\* C24, the case: a burst of MaxCalls calls, the last one with another
\* argument than the one before, has been answered by one invocation.
C24_Witness ==
    /\ last.op = "later"
    /\ last.calls = MaxCalls
    /\ last.invoked = 1
    /\ last.funcArgs = "re"

====
